---- MODULE Spec2Model ----
(***************************************************************************)
(* The CAPY token: three independent deployments of the same token logic.  *)
(*   CapySolanaToken.rs  an Anchor program over the SPL token program and  *)
(*                       the Wormhole core bridge                          *)
(*   CapyKaspaToken.rs   a library that builds Kaspa transactions          *)
(*   CapyCosmosToken.rs  a CosmWasm contract over cw20-base and Axelar     *)
(* The deployments share no state, so each has its own variables, its own  *)
(* initial state and its own specification (SpecSolana, SpecKaspa,         *)
(* SpecCosmos); the variables of the other two stay at their initial       *)
(* values.  `ret` is the record of the last call: the operation, its       *)
(* arguments and its result.                                               *)
(***************************************************************************)
EXTENDS Integers, Sequences, FiniteSets

VARIABLES
    sol_paused,        \* CapySolanaToken.paused
    sol_total_supply,  \* CapySolanaToken.total_supply
    sol_balances,      \* SPL token accounts: account -> amount
    sol_mint_supply,   \* supply of the SPL mint
    sol_sequence,      \* Wormhole sequence tracker of the emitter
    sol_messages,      \* Wormhole messages posted by bridge_out, in order
    sol_minted,        \* history: (emitter chain, sequence) -> number of mints by bridge_in
    kas_paused,        \* CapyKaspaToken.paused
    kas_balances,      \* Kaspa ledger: address -> spendable amount
    kas_txs,           \* number of transactions the ledger has accepted
    kas_stake,         \* stored StakeInfo: staker -> StakeInfo
    kas_time,          \* get_current_timestamp(), in seconds since construction
    cos_total_supply,  \* TOKEN_INFO.total_supply
    cos_balances,      \* BALANCES
    cos_vesting,       \* VESTING_INFO of the team wallet
    cos_stake,         \* STAKE_INFO: sender -> StakeInfo or NoStake
    cos_msgs,          \* Axelar submessages emitted by execute_bridge_transfer, in order
    cos_time,          \* env.block.time.seconds()
    ret                \* the last call and its result

sol_vars == <<sol_paused, sol_total_supply, sol_balances, sol_mint_supply,
              sol_sequence, sol_messages, sol_minted>>
kas_vars == <<kas_paused, kas_balances, kas_txs, kas_stake, kas_time>>
cos_vars == <<cos_total_supply, cos_balances, cos_vesting, cos_stake, cos_msgs, cos_time>>
vars == <<sol_vars, kas_vars, cos_vars, ret>>

----------------------------------------------------------------------------
(* Program constants, the same in the three sources.                       *)

INITIAL_SUPPLY == 1000000000
LIQUIDITY_ALLOCATION == 400000000
TEAM_ALLOCATION == 100000000
TEAM_VESTING_DURATION == 63072000
TEAM_CLIFF_PERIOD == 31536000
MAX_TRANSFER_AMOUNT == 1000000
TRANSFER_TAX_RATE == 2
STAKE_MINIMUM == 1000
REWARD_RATE == 10

(* Bounds of the model.                                                    *)
MaxSeq == 2        \* bridge_out posts at most this many Wormhole messages
MaxBridgeIn == 2   \* bridge_in mints at most this many times
MaxMsgs == 2       \* execute_bridge_transfer emits at most this many submessages
MaxTxs == 2        \* the Kaspa ledger accepts at most this many transactions
MaxStakeTxs == 3   \* the same, for the transactions of stake, unstake and claim_rewards

SumOver(f, S) ==
    LET RECURSIVE Sum(_)
        Sum(T) == IF T = {} THEN 0
                  ELSE LET x == CHOOSE y \in T : TRUE IN f[x] + Sum(T \ {x})
    IN Sum(S)

----------------------------------------------------------------------------
(* CapySolanaToken                                                         *)

SolAccounts == {"treasury", "alice", "bob"}
ForeignChains == {"ethereum"}
SolAmounts == {0, 500}

(* A VAA as bridge_in receives it: whether it verifies, the identifier the *)
(* Wormhole envelope carries, and the BridgeMessage payload.               *)
MsgIds == ForeignChains \X {0, 1}
Vaas == [verified : BOOLEAN, emitter_chain : ForeignChains, sequence : {0, 1},
         amount : {500, 700}, recipient_chain : {"solana"}, recipient : {"alice", "bob"}]
VaaId(vaa) == <<vaa.emitter_chain, vaa.sequence>>

SolInit ==
    /\ sol_paused = FALSE
    /\ sol_total_supply = INITIAL_SUPPLY
    /\ sol_balances = [a \in SolAccounts |-> IF a = "treasury" THEN LIQUIDITY_ALLOCATION ELSE 0]
    /\ sol_mint_supply = LIQUIDITY_ALLOCATION
    /\ sol_sequence = 0
    /\ sol_messages = <<>>
    /\ sol_minted = [id \in MsgIds |-> 0]

(* wormhole::parse_vaa(&vaa)?  "Verify and parse VAA": an error for a VAA  *)
(* that does not verify, the BridgeMessage payload otherwise.              *)
parse_vaa_unverified(vaa) ==
    [ok |-> TRUE, amount |-> vaa.amount, recipient_chain |-> vaa.recipient_chain,
     recipient |-> vaa.recipient]

parse_vaa(vaa) ==
    IF vaa.verified
    THEN [ok |-> TRUE, amount |-> vaa.amount, recipient_chain |-> vaa.recipient_chain,
          recipient |-> vaa.recipient]
    ELSE [ok |-> FALSE]

(* wormhole::post_message: the core bridge stamps the message with the     *)
(* emitter's sequence tracker and advances the tracker.                    *)
post_message_reuse(messages, sequence, payload) ==
    [messages |-> Append(messages, [sequence |-> 0, payload |-> payload]), sequence |-> sequence]

post_message(messages, sequence, payload) ==
    [messages |-> Append(messages, [sequence |-> sequence, payload |-> payload]),
     sequence |-> sequence + 1]

(* The result of bridge_out and the state it leaves.  A failing CPI (the   *)
(* burn, or the post when posted = FALSE) fails the instruction, and the   *)
(* runtime discards everything the instruction did.                        *)
bridge_out(from, amount, recipient_chain, recipient, posted) ==
    LET same == [res |-> "", balances |-> sol_balances, supply |-> sol_mint_supply,
                 messages |-> sol_messages, sequence |-> sol_sequence]
        payload == [amount |-> amount, token_address |-> "mint",
                    recipient_chain |-> recipient_chain, recipient |-> recipient]
        post == post_message(sol_messages, sol_sequence, payload)
    IN  IF sol_paused THEN [same EXCEPT !.res = "Paused"]
        ELSE IF ~(amount > 0) THEN [same EXCEPT !.res = "ZeroAmount"]
        ELSE IF sol_balances[from] < amount THEN [same EXCEPT !.res = "InsufficientFunds"]
        ELSE IF ~posted THEN [same EXCEPT !.res = "PostMessageFailed"]
        ELSE [res |-> "Ok",
              balances |-> [sol_balances EXCEPT ![from] = @ - amount],
              supply |-> sol_mint_supply - amount,
              messages |-> post.messages,
              sequence |-> post.sequence]

SolBridgeOut ==
    \E from \in SolAccounts, amount \in SolAmounts, recipient_chain \in ForeignChains,
       recipient \in {"0xa"}, posted \in BOOLEAN :
        LET r == bridge_out(from, amount, recipient_chain, recipient, posted) IN
        /\ r.res = "Ok" => sol_sequence < MaxSeq
        /\ sol_balances' = r.balances
        /\ sol_mint_supply' = r.supply
        /\ sol_messages' = r.messages
        /\ sol_sequence' = r.sequence
        /\ ret' = [op |-> "bridge_out", res |-> r.res, from |-> from, amount |-> amount]
        /\ UNCHANGED <<sol_paused, sol_total_supply, sol_minted>>

(* The result of bridge_in and the state it leaves.  The tokens go to the  *)
(* token account the caller passes as ctx.accounts.recipient.              *)
bridge_in(vaa, recipient_account) ==
    LET same == [res |-> "", balances |-> sol_balances, supply |-> sol_mint_supply]
        message == parse_vaa(vaa)
    IN  IF sol_paused THEN [same EXCEPT !.res = "Paused"]
        ELSE IF ~message.ok THEN [same EXCEPT !.res = "InvalidVaa"]
        ELSE [res |-> "Ok",
              balances |-> [sol_balances EXCEPT ![recipient_account] = @ + message.amount],
              supply |-> sol_mint_supply + message.amount]

BridgeInCount == SumOver(sol_minted, MsgIds)

SolBridgeIn ==
    \E vaa \in Vaas, recipient_account \in {"alice", "bob"} :
        LET r == bridge_in(vaa, recipient_account) IN
        /\ r.res = "Ok" => BridgeInCount < MaxBridgeIn
        /\ sol_balances' = r.balances
        /\ sol_mint_supply' = r.supply
        /\ sol_minted' = IF r.res = "Ok"
                         THEN [sol_minted EXCEPT ![VaaId(vaa)] = @ + 1]
                         ELSE sol_minted
        /\ ret' = [op |-> "bridge_in", res |-> r.res, vaa |-> vaa,
                   recipient_account |-> recipient_account]
        /\ UNCHANGED <<sol_paused, sol_total_supply, sol_sequence, sol_messages>>

(* The identifiers bridge_in refuses whatever verified VAA carries them:   *)
(* what the program's state holds of a ReplayGuard.                        *)
ReplayGuard ==
    {id \in MsgIds :
        \A vaa \in Vaas, a \in SolAccounts :
            (vaa.verified /\ VaaId(vaa) = id) => bridge_in(vaa, a).res # "Ok"}

----------------------------------------------------------------------------
(* CapyKaspaToken.  The struct holds no balances: every operation returns  *)
(* the Transaction it built, and the caller submits that transaction to    *)
(* the Kaspa ledger, modelled by kas_balances.                             *)

KasAccounts == {"alice", "bob", "treasury"}
treasury_wallet == "treasury"
TransferAmounts == {0, 1, 49, 50, 1000, MAX_TRANSFER_AMOUNT, MAX_TRANSFER_AMOUNT + 1}
(* What the ledger holds when the token is constructed.                    *)
stake_address == "stake_address"
KasLedger == KasAccounts \cup {stake_address}
KasFunds ==
    [a \in KasLedger |->
        CASE a = "alice" -> 2000000
          [] a = "bob" -> 990
          [] a = treasury_wallet -> 15
          [] OTHER -> 0]

KasInit ==
    /\ kas_paused = FALSE
    /\ kas_txs = 0
    /\ kas_balances = KasFunds
    /\ kas_stake = <<>>
    /\ kas_time = 0

(* TransactionBuilder::new().add_input(input, amount).add_output(output,   *)
(* amount).build(): the transaction, or an error when the input address    *)
(* does not hold the amount to spend.                                      *)
build(input, output, amount) ==
    IF kas_balances[input] >= amount
    THEN [ok |-> TRUE, input |-> input, output |-> output, amount |-> amount]
    ELSE [ok |-> FALSE]

(* What transfer returns: an error, or Ok(transfer_tx).  tax_tx is built   *)
(* and then dropped when the function returns.                             *)
transfer_zero_first(from, to, amount) ==
    LET tax_amount == (amount * TRANSFER_TAX_RATE) \div 100
        transfer_amount == amount - tax_amount
        tax_tx == build(from, treasury_wallet, tax_amount)
        transfer_tx == build(from, to, transfer_amount)
    IN  IF amount = 0 THEN [res |-> "ZeroAmount"]
        ELSE IF amount > MAX_TRANSFER_AMOUNT THEN [res |-> "ExceedsMaximum"]
        ELSE IF kas_paused THEN [res |-> "Paused"]
        ELSE IF ~tax_tx.ok THEN [res |-> "BuildError"]
        ELSE IF ~transfer_tx.ok THEN [res |-> "BuildError"]
        ELSE [res |-> "Ok", tx |-> transfer_tx]

transfer_tax_rounded_up(from, to, amount) ==
    LET tax_amount == (amount * TRANSFER_TAX_RATE + 99) \div 100
        transfer_amount == amount - tax_amount
        tax_tx == build(from, treasury_wallet, tax_amount)
        transfer_tx == build(from, to, transfer_amount)
    IN  IF kas_paused THEN [res |-> "Paused"]
        ELSE IF amount = 0 THEN [res |-> "ZeroAmount"]
        ELSE IF amount > MAX_TRANSFER_AMOUNT THEN [res |-> "ExceedsMaximum"]
        ELSE IF ~tax_tx.ok THEN [res |-> "BuildError"]
        ELSE IF ~transfer_tx.ok THEN [res |-> "BuildError"]
        ELSE [res |-> "Ok", tx |-> transfer_tx]

transfer(from, to, amount) ==
    LET tax_amount == (amount * TRANSFER_TAX_RATE) \div 100
        transfer_amount == amount - tax_amount
        tax_tx == build(from, treasury_wallet, tax_amount)
        transfer_tx == build(from, to, transfer_amount)
    IN  IF kas_paused THEN [res |-> "Paused"]
        ELSE IF amount = 0 THEN [res |-> "ZeroAmount"]
        ELSE IF amount > MAX_TRANSFER_AMOUNT THEN [res |-> "ExceedsMaximum"]
        ELSE IF ~tax_tx.ok THEN [res |-> "BuildError"]
        ELSE IF ~transfer_tx.ok THEN [res |-> "BuildError"]
        ELSE [res |-> "Ok", tx |-> transfer_tx]

(* The ledger after a transaction: the amount leaves the input address and *)
(* reaches the output address.                                             *)
Submit(balances, tx) ==
    LET debited == [balances EXCEPT ![tx.input] = @ - tx.amount]
    IN  [debited EXCEPT ![tx.output] = @ + tx.amount]

KasTransfer ==
    \E from \in KasAccounts, to \in KasAccounts, amount \in TransferAmounts :
        LET r == transfer(from, to, amount) IN
        /\ r.res = "Ok" => kas_txs < MaxTxs
        /\ kas_balances' = IF r.res = "Ok" THEN Submit(kas_balances, r.tx) ELSE kas_balances
        /\ kas_txs' = IF r.res = "Ok" THEN kas_txs + 1 ELSE kas_txs
        /\ ret' = [op |-> "transfer", res |-> r.res, from |-> from, to |-> to,
                   amount |-> amount]
        /\ UNCHANGED <<kas_paused, kas_stake, kas_time>>

(* `pub paused: bool`: the owner of the struct sets the field.             *)
KasSetPaused ==
    \E b \in BOOLEAN :
        /\ kas_paused' = b
        /\ ret' = [op |-> "set_paused", res |-> "Ok"]
        /\ UNCHANGED <<kas_balances, kas_txs, kas_stake, kas_time>>

----------------------------------------------------------------------------
(* CapyKaspaToken, staking.  The three storage helpers are stubs in the    *)
(* source (unimplemented!()); they are taken as a map from staker to       *)
(* StakeInfo and one fixed custody address.  A helper's write stays when   *)
(* a later step of the same call fails: nothing in the call undoes it.     *)

KasStakers == {"alice", "bob"}
KasStakeAmounts == {999, 1000, 1200}
KasTimes == {0, 86400, 172800}

store_stake_info(stakes, staker, info) ==
    [s \in DOMAIN stakes \cup {staker} |-> IF s = staker THEN info ELSE stakes[s]]

get_stake_info(stakes, staker) ==
    IF staker \in DOMAIN stakes THEN [ok |-> TRUE, info |-> stakes[staker]] ELSE [ok |-> FALSE]

(* u64 arithmetic.  A u64 below 2^31 is [fits |-> TRUE, val |-> n] with n  *)
(* an integer of the model; a larger one is [fits |-> FALSE, val |-> its 8 *)
(* bytes, least significant first], so that a product beyond 2^64 can be   *)
(* told from its wrapped value.  An operation whose operands and result    *)
(* are below 2^31 is the operation on integers; the others go byte by byte.*)
U64(n) == [fits |-> TRUE, val |-> n]

RECURSIVE ToBytes(_, _)
ToBytes(n, k) == IF k = 0 THEN <<>> ELSE <<n % 256>> \o ToBytes(n \div 256, k - 1)

Bytes(x) == IF x.fits THEN ToBytes(x.val, 8) ELSE x.val

AllZero(bytes) == \A i \in DOMAIN bytes : bytes[i] = 0

FromBytes(bytes) ==
    IF bytes[4] < 128 /\ \A i \in 5..8 : bytes[i] = 0
    THEN U64(bytes[1] + 256 * (bytes[2] + 256 * (bytes[3] + 256 * bytes[4])))
    ELSE [fits |-> FALSE, val |-> bytes]

IsZero(x) == x.fits /\ x.val = 0

(* a - b modulo 2^64: byte by byte with a borrow.                          *)
RECURSIVE SubBytes(_, _, _)
SubBytes(a, b, borrow) ==
    IF a = <<>> THEN <<>>
    ELSE LET d == a[1] - b[1] - borrow
         IN  <<(d + 256) % 256>> \o SubBytes(Tail(a), Tail(b), IF d < 0 THEN 1 ELSE 0)

wrapping_sub(a, b) ==
    IF a.fits /\ b.fits /\ a.val >= b.val
    THEN U64(a.val - b.val)
    ELSE FromBytes(SubBytes(Bytes(a), Bytes(b), 0))

(* The whole product of two u64, 16 bytes long: column by column with a    *)
(* carry.                                                                  *)
RECURSIVE Column(_, _, _, _)
Column(a, b, k, i) ==
    IF i > Len(a) THEN 0
    ELSE (IF k + 1 - i \in DOMAIN b THEN a[i] * b[k + 1 - i] ELSE 0) + Column(a, b, k, i + 1)

RECURSIVE MulBytes(_, _, _, _)
MulBytes(a, b, k, carry) ==
    IF k > Len(a) + Len(b) THEN <<>>
    ELSE LET c == Column(a, b, k, 1) + carry
         IN  <<c % 256>> \o MulBytes(a, b, k + 1, c \div 256)

full_mul(a, b) == MulBytes(Bytes(a), Bytes(b), 1, 0)

(* The product of a and b is below 2^31.                                   *)
mul_fits(a, b) ==
    a.fits /\ b.fits /\ (a.val = 0 \/ b.val <= 2147483647 \div a.val)

(* a * b modulo 2^64, and whether the product is beyond 2^64.              *)
wrapping_mul(a, b) ==
    IF mul_fits(a, b) THEN U64(a.val * b.val) ELSE FromBytes(SubSeq(full_mul(a, b), 1, 8))

mul_overflows(a, b) == ~mul_fits(a, b) /\ ~AllZero(SubSeq(full_mul(a, b), 9, 16))

(* a / d for 0 < d < 2^27: long division from the top byte, four bits at a *)
(* time.                                                                   *)
RECURSIVE DivBytes(_, _, _)
DivBytes(a, d, rem) ==
    IF a = <<>> THEN <<>>
    ELSE LET top == a[Len(a)]
             r1 == rem * 16 + (top \div 16)
             r2 == (r1 % d) * 16 + (top % 16)
         IN  DivBytes(SubSeq(a, 1, Len(a) - 1), d, r2 % d)
                 \o <<(r1 \div d) * 16 + (r2 \div d)>>

div_u64(a, d) == IF a.fits THEN U64(a.val \div d) ELSE FromBytes(DivBytes(a.val, d, 0))

(* (stake_info.amount * reward_rate * time_staked) / (1000 * 86400), in    *)
(* u64: amount * reward_rate first, then the product with time_staked.     *)
rewards_without_rate(amount, time_staked) ==
    div_u64(wrapping_mul(U64(amount), time_staked), 1000 * 86400)

rewards(amount, time_staked) ==
    div_u64(wrapping_mul(wrapping_mul(U64(amount), U64(REWARD_RATE)), time_staked),
            1000 * 86400)

(* One of the three u64 operations of claim_rewards leaves the u64 range:  *)
(* the subtraction, amount * reward_rate, or the product with time_staked. *)
rewards_overflow(amount, now, last_claim_time) ==
    \/ now < last_claim_time
    \/ mul_overflows(U64(amount), U64(REWARD_RATE))
    \/ mul_overflows(wrapping_mul(U64(amount), U64(REWARD_RATE)),
                     wrapping_sub(U64(now), U64(last_claim_time)))

(* stake: the result, the stored records, and the transaction returned.    *)
stake(staker, amount) ==
    LET stake_info == [amount |-> amount, start_time |-> kas_time, last_claim_time |-> kas_time]
        stored == store_stake_info(kas_stake, staker, stake_info)
        stake_tx == build(staker, stake_address, amount)
    IN  IF amount < STAKE_MINIMUM THEN [res |-> "BelowMinimum", stake |-> kas_stake]
        ELSE IF ~stake_tx.ok THEN [res |-> "BuildError", stake |-> stored]
        ELSE [res |-> "Ok", stake |-> stored, tx |-> stake_tx]

(* claim_rewards: last_claim_time is stored before the reward transaction  *)
(* is built.  An operation that leaves the u64 range panics in a build     *)
(* with overflow checks and wraps in a build without them.  No address     *)
(* holds 2^31 or more, so a reward that large cannot be spent.             *)
claim_rewards(staker, overflow_checks) ==
    LET got == get_stake_info(kas_stake, staker)
        stake_info == got.info
        time_staked == wrapping_sub(U64(kas_time), U64(stake_info.last_claim_time))
        r == rewards(stake_info.amount, time_staked)
        stored == store_stake_info(kas_stake, staker,
                                   [stake_info EXCEPT !.last_claim_time = kas_time])
        reward_tx == IF r.fits THEN build(treasury_wallet, staker, r.val)
                     ELSE [ok |-> FALSE]
    IN  IF ~got.ok THEN [res |-> "StorageError", rewards |-> U64(0), stake |-> kas_stake]
        ELSE IF /\ overflow_checks
                /\ rewards_overflow(stake_info.amount, kas_time, stake_info.last_claim_time)
             THEN [res |-> "Panic", rewards |-> U64(0), stake |-> kas_stake]
        ELSE IF IsZero(r) THEN [res |-> "NoRewards", rewards |-> r, stake |-> kas_stake]
        ELSE IF ~reward_tx.ok THEN [res |-> "BuildError", rewards |-> r, stake |-> stored]
        ELSE [res |-> "Ok", rewards |-> r, stake |-> stored, tx |-> reward_tx]

(* unstake: an error of claim_rewards is returned by `?`; its transaction  *)
(* is dropped; the record is read before the claim and never removed.      *)
unstake(staker, overflow_checks) ==
    LET got == get_stake_info(kas_stake, staker)
        claimed == claim_rewards(staker, overflow_checks)
        unstake_tx == build(stake_address, staker, got.info.amount)
    IN  IF ~got.ok THEN [res |-> "StorageError", stake |-> kas_stake]
        ELSE IF claimed.res # "Ok" THEN [res |-> claimed.res, stake |-> claimed.stake]
        ELSE IF ~unstake_tx.ok THEN [res |-> "BuildError", stake |-> claimed.stake]
        ELSE [res |-> "Ok", stake |-> claimed.stake, tx |-> unstake_tx]

KasStakeFrom(amounts) ==
    \E staker \in KasStakers, amount \in amounts :
        \E r \in {stake(staker, amount)} :
        /\ r.res = "Ok" => kas_txs < MaxStakeTxs
        /\ kas_stake' = r.stake
        /\ kas_balances' = IF r.res = "Ok" THEN Submit(kas_balances, r.tx) ELSE kas_balances
        /\ kas_txs' = IF r.res = "Ok" THEN kas_txs + 1 ELSE kas_txs
        /\ ret' = [op |-> "stake", res |-> r.res, staker |-> staker, amount |-> amount]
        /\ UNCHANGED <<kas_paused, kas_time>>

KasStake == KasStakeFrom(KasStakeAmounts)

KasClaimRewards ==
    \E staker \in KasStakers, overflow_checks \in BOOLEAN :
        \E r \in {claim_rewards(staker, overflow_checks)} :
        /\ r.res = "Ok" => kas_txs < MaxStakeTxs
        /\ kas_stake' = r.stake
        /\ kas_balances' = IF r.res = "Ok" THEN Submit(kas_balances, r.tx) ELSE kas_balances
        /\ kas_txs' = IF r.res = "Ok" THEN kas_txs + 1 ELSE kas_txs
        /\ ret' = [op |-> "claim_rewards", res |-> r.res, staker |-> staker,
                   rewards |-> r.rewards]
        /\ UNCHANGED <<kas_paused, kas_time>>

KasUnstake ==
    \E staker \in KasStakers, overflow_checks \in BOOLEAN :
        \E r \in {unstake(staker, overflow_checks)} :
        /\ r.res = "Ok" => kas_txs < MaxStakeTxs
        /\ kas_stake' = r.stake
        /\ kas_balances' = IF r.res = "Ok" THEN Submit(kas_balances, r.tx) ELSE kas_balances
        /\ kas_txs' = IF r.res = "Ok" THEN kas_txs + 1 ELSE kas_txs
        /\ ret' = [op |-> "unstake", res |-> r.res, staker |-> staker]
        /\ UNCHANGED <<kas_paused, kas_time>>

(* A stake of any amount up to the whole supply.                           *)
KasStakeAny == KasStakeFrom({STAKE_MINIMUM, INITIAL_SUPPLY})

(* get_current_timestamp reads the system clock, which can be set: to an   *)
(* earlier time, or decades ahead.                                         *)
KasClockTimes == {0, 1900000000}

KasSetClock ==
    \E t \in KasClockTimes :
        /\ t # kas_time
        /\ kas_time' = t
        /\ ret' = [op |-> "set_clock", res |-> "Ok"]
        /\ UNCHANGED <<kas_paused, kas_balances, kas_txs, kas_stake>>

(* The clock moves on.                                                     *)
KasAdvanceTime ==
    \E t \in KasTimes :
        /\ t > kas_time
        /\ kas_time' = t
        /\ ret' = [op |-> "advance_time", res |-> "Ok"]
        /\ UNCHANGED <<kas_paused, kas_balances, kas_txs, kas_stake>>

----------------------------------------------------------------------------
(* CapyCosmosToken.  Of the handlers execute dispatches to, the source     *)
(* holds execute_stake and execute_bridge_transfer; Burn goes to cw20-base.*)

CosAccounts == {"treasury", "team", "alice"}
CosTimes == {0, 86400, 172800}
CosStakeAmounts == {0, 1000}
CosBridgeAmounts == {500}
CosBurnAmounts == {0, 200000000, 400000001}

(* The state instantiate leaves, at block time 0.                          *)
CosInit ==
    /\ cos_time = 0
    /\ cos_total_supply = INITIAL_SUPPLY
    /\ cos_balances = [a \in CosAccounts |-> IF a = "treasury" THEN LIQUIDITY_ALLOCATION ELSE 0]
    /\ cos_vesting = [beneficiary |-> "team", total_amount |-> TEAM_ALLOCATION,
                      claimed_amount |-> 0, start_time |-> 0,
                      duration |-> TEAM_VESTING_DURATION, cliff_period |-> TEAM_CLIFF_PERIOD]
    /\ cos_stake = <<>>
    /\ cos_msgs = <<>>

(* execute_stake: saves a fresh StakeInfo under the sender; no check and   *)
(* no token movement.                                                      *)
execute_stake(stakes, sender, amount, now) ==
    [s \in DOMAIN stakes \cup {sender} |->
        IF s = sender
        THEN [amount |-> amount, start_time |-> now, last_claim_time |-> now]
        ELSE stakes[s]]

CosStake ==
    \E sender \in CosAccounts, amount \in CosStakeAmounts :
        /\ cos_stake' = execute_stake(cos_stake, sender, amount, cos_time)
        /\ ret' = [op |-> "stake", res |-> "Ok", sender |-> sender, amount |-> amount]
        /\ UNCHANGED <<cos_total_supply, cos_balances, cos_vesting, cos_msgs, cos_time>>

(* execute_bridge_transfer: the response carries the Axelar BridgeToken    *)
(* submessage; the handler writes nothing to storage.                      *)
execute_bridge_transfer(msgs, destination_chain, destination_address, amount) ==
    Append(msgs, [destination_chain |-> destination_chain,
                  destination_address |-> destination_address, amount |-> amount])

CosBridgeTransfer ==
    \E sender \in CosAccounts, amount \in CosBridgeAmounts :
        /\ Len(cos_msgs) < MaxMsgs
        /\ cos_msgs' = execute_bridge_transfer(cos_msgs, "solana", "0xa", amount)
        /\ ret' = [op |-> "bridge_transfer", res |-> "Ok", sender |-> sender,
                   amount |-> amount]
        /\ UNCHANGED <<cos_total_supply, cos_balances, cos_vesting, cos_stake, cos_time>>

(* ExecuteMsg::Burn, handled by cw20_execute: cw20-base refuses a zero     *)
(* amount and an amount above the sender's balance.                        *)
cw20_burn(sender, amount) ==
    IF amount = 0 THEN [res |-> "InvalidZeroAmount", balances |-> cos_balances,
                        total_supply |-> cos_total_supply]
    ELSE IF cos_balances[sender] < amount
    THEN [res |-> "Overflow", balances |-> cos_balances, total_supply |-> cos_total_supply]
    ELSE [res |-> "Ok", balances |-> [cos_balances EXCEPT ![sender] = @ - amount],
          total_supply |-> cos_total_supply - amount]

CosBurn ==
    \E sender \in CosAccounts, amount \in CosBurnAmounts :
        LET r == cw20_burn(sender, amount) IN
        /\ cos_balances' = r.balances
        /\ cos_total_supply' = r.total_supply
        /\ ret' = [op |-> "burn", res |-> r.res, sender |-> sender, amount |-> amount]
        /\ UNCHANGED <<cos_vesting, cos_stake, cos_msgs, cos_time>>

(* A later block.                                                          *)
CosAdvanceTime ==
    \E t \in CosTimes :
        /\ t > cos_time
        /\ cos_time' = t
        /\ ret' = [op |-> "advance_time", res |-> "Ok"]
        /\ UNCHANGED <<cos_total_supply, cos_balances, cos_vesting, cos_stake, cos_msgs>>

----------------------------------------------------------------------------
(* Vesting.  ExecuteMsg declares ClaimTeamTokens, ClaimDevelopmentTokens   *)
(* and ClaimMarketingTokens and instantiate creates the team grant; the    *)
(* handler of the three messages is not part of the source, and is taken   *)
(* from the design document (VestingEngine: claimable, claim).             *)

(* floor(a * b / d) for a, b >= 0 and d > 0, in steps that stay below      *)
(* 2 * d: the Uint128 product total_amount * elapsed, which does not wrap. *)
RECURSIVE MulDivQR(_, _, _)
MulDivQR(a, b, d) ==
    IF b = 0 THEN [q |-> 0, r |-> 0]
    ELSE LET h == MulDivQR(a, b \div 2, d)
             q2 == 2 * h.q + (2 * h.r) \div d
             r2 == (2 * h.r) % d
         IN  IF b % 2 = 0 THEN [q |-> q2, r |-> r2]
             ELSE [q |-> q2 + (a \div d) + (r2 + (a % d)) \div d,
                   r |-> (r2 + (a % d)) % d]

MulDivFloor(a, b, d) == MulDivQR(a, b, d).q

Min(a, b) == IF a < b THEN a ELSE b

claimable_cliff_excluded(grant, now) ==
    IF now <= grant.start_time + grant.cliff_period THEN 0
    ELSE LET elapsed == Min(now - grant.start_time, grant.duration)
             vested == MulDivFloor(grant.total_amount, elapsed, grant.duration)
         IN  IF vested > grant.claimed_amount THEN vested - grant.claimed_amount ELSE 0

claimable(grant, now) ==
    IF now < grant.start_time + grant.cliff_period THEN 0
    ELSE LET elapsed == Min(now - grant.start_time, grant.duration)
             vested == MulDivFloor(grant.total_amount, elapsed, grant.duration)
         IN  IF vested > grant.claimed_amount THEN vested - grant.claimed_amount ELSE 0

(* claim(grant, now): nothing claimable is an error; otherwise the amount  *)
(* is added to claimed_amount and credited, untaxed, to the beneficiary.   *)
claim_without_recording(grant, balances, now) ==
    LET c == claimable(grant, now)
    IN  IF c = 0 THEN [res |-> "NoRewards", amount |-> 0, grant |-> grant, balances |-> balances]
        ELSE [res |-> "Ok", amount |-> c, grant |-> grant,
              balances |-> [balances EXCEPT ![grant.beneficiary] = @ + c]]

claim(grant, balances, now) ==
    LET c == claimable(grant, now)
    IN  IF c = 0 THEN [res |-> "NoRewards", amount |-> 0, grant |-> grant, balances |-> balances]
        ELSE [res |-> "Ok", amount |-> c,
              grant |-> [grant EXCEPT !.claimed_amount = @ + c],
              balances |-> [balances EXCEPT ![grant.beneficiary] = @ + c]]

VestingCategories == {"team", "development", "marketing"}
VestingTimes == {0, 15768000, 31535999, 31536000, 31536001, 47304000, 63071999, 63072000,
                 63072001, 94608000}

(* Only the team grant exists: a claim of another category finds none.     *)
CosClaimVested ==
    \E category \in VestingCategories :
        LET r == IF category = cos_vesting.beneficiary
                 THEN claim(cos_vesting, cos_balances, cos_time)
                 ELSE [res |-> "NotFound", amount |-> 0, grant |-> cos_vesting,
                       balances |-> cos_balances]
        IN  /\ cos_vesting' = r.grant
            /\ cos_balances' = r.balances
            /\ ret' = [op |-> "claim_vested_tokens", res |-> r.res, category |-> category,
                       amount |-> r.amount]
            /\ UNCHANGED <<cos_total_supply, cos_stake, cos_msgs, cos_time>>

CosAdvanceVestingTime ==
    \E t \in VestingTimes :
        /\ t > cos_time
        /\ cos_time' = t
        /\ ret' = [op |-> "advance_time", res |-> "Ok"]
        /\ UNCHANGED <<cos_total_supply, cos_balances, cos_vesting, cos_stake, cos_msgs>>

----------------------------------------------------------------------------
(* The three specifications.                                               *)

Init ==
    /\ SolInit
    /\ KasInit
    /\ CosInit
    /\ ret = [op |-> "init", res |-> "Ok"]

NextSolana ==
    \/ SolBridgeOut /\ UNCHANGED <<kas_vars, cos_vars>>
    \/ SolBridgeIn /\ UNCHANGED <<kas_vars, cos_vars>>

NextKaspa ==
    \/ KasTransfer /\ UNCHANGED <<sol_vars, cos_vars>>
    \/ KasSetPaused /\ UNCHANGED <<sol_vars, cos_vars>>

NextCosmos ==
    \/ CosStake /\ UNCHANGED <<sol_vars, kas_vars>>
    \/ CosBridgeTransfer /\ UNCHANGED <<sol_vars, kas_vars>>
    \/ CosBurn /\ UNCHANGED <<sol_vars, kas_vars>>
    \/ CosAdvanceTime /\ UNCHANGED <<sol_vars, kas_vars>>

SpecSolana == Init /\ [][NextSolana]_vars
SpecKaspa == Init /\ [][NextKaspa]_vars
SpecCosmos == Init /\ [][NextCosmos]_vars

(* Staking on Kaspa; transfer and the pause do not touch the stake records.*)
NextKaspaStaking ==
    \/ KasStake /\ UNCHANGED <<sol_vars, cos_vars>>
    \/ KasClaimRewards /\ UNCHANGED <<sol_vars, cos_vars>>
    \/ KasUnstake /\ UNCHANGED <<sol_vars, cos_vars>>
    \/ KasAdvanceTime /\ UNCHANGED <<sol_vars, cos_vars>>

SpecKaspaStaking == Init /\ [][NextKaspaStaking]_vars

(* Staking on Kaspa with any amount and under a clock that can be set.     *)
NextKaspaClock ==
    \/ KasStakeAny /\ UNCHANGED <<sol_vars, cos_vars>>
    \/ KasClaimRewards /\ UNCHANGED <<sol_vars, cos_vars>>
    \/ KasUnstake /\ UNCHANGED <<sol_vars, cos_vars>>
    \/ KasSetClock /\ UNCHANGED <<sol_vars, cos_vars>>

SpecKaspaClock == Init /\ [][NextKaspaClock]_vars

(* Vesting claims over the years of the team grant.  The other Cosmos      *)
(* handlers do not read or write VESTING_INFO.                             *)
NextCosmosVesting ==
    \/ CosClaimVested /\ UNCHANGED <<sol_vars, kas_vars>>
    \/ CosAdvanceVestingTime /\ UNCHANGED <<sol_vars, kas_vars>>

SpecCosmosVesting == Init /\ [][NextCosmosVesting]_vars

----------------------------------------------------------------------------
(* The claims.                                                             *)

(* C1: for every (source_chain_id, sequence_number) pair, bridge_in mints  *)
(* at most once; every later bridge_in carrying the pair is refused.       *)
C1_BridgeInAtMostOncePerId ==
    \A id \in MsgIds : sol_minted[id] <= 1

(* C2: the account balances, the stake custody (held in an account) and    *)
(* the unclaimed vesting reserve add up to the issued total supply.        *)
C2_SupplyConserved ==
    SumOver(cos_balances, CosAccounts)
        + (cos_vesting.total_amount - cos_vesting.claimed_amount) = cos_total_supply

(* C3: a successful bridge_in adds message.amount to the balance of        *)
(* message.recipient and changes no other balance.                         *)
C3_MintsToMessageRecipient ==
    [][(ret'.op = "bridge_in" /\ ret'.res = "Ok") =>
          sol_balances' = [sol_balances EXCEPT ![ret'.vaa.recipient] = @ + ret'.vaa.amount]]_vars

(* C4: bridge_in with a VAA that does not verify is rejected: no balance,  *)
(* no supply and no record of consumed identifiers changes, and the        *)
(* identifier is still accepted afterwards with a verified VAA.            *)
C4_UnverifiedRejected ==
    [][(ret'.op = "bridge_in" /\ ~ret'.vaa.verified) =>
          /\ ret'.res = "InvalidVaa"
          /\ UNCHANGED <<sol_balances, sol_mint_supply, sol_total_supply, sol_minted>>
          /\ ReplayGuard' = ReplayGuard
          /\ VaaId(ret'.vaa) \notin ReplayGuard']_vars

C4_Witness ==
    /\ ret.op = "bridge_in"
    /\ ~ret.vaa.verified
    /\ ret.res = "InvalidVaa"
    /\ sol_minted[VaaId(ret.vaa)] = 0

(* C5: an identifier is in the ReplayGuard exactly when its amount has     *)
(* been minted.                                                            *)
C5_GuardedIffMinted ==
    \A id \in MsgIds : (id \in ReplayGuard) <=> (sol_minted[id] > 0)

(* C6: a bridge message for amount A is emitted only together with the     *)
(* burn of A from the sender's balance.                                    *)
C6_EmittedOnlyWithBurn ==
    [][(ret'.op = "bridge_transfer" /\ Len(cos_msgs') > Len(cos_msgs)) =>
          /\ cos_balances' = [cos_balances EXCEPT ![ret'.sender] = @ - ret'.amount]
          /\ cos_total_supply' = cos_total_supply - ret'.amount]_vars

TaxOf(amount) == (amount * TRANSFER_TAX_RATE) \div 100

(* C8: a successful transfer takes amount from `from`, gives the tax       *)
(* floor(amount * 2 / 100) to the tax recipient and the rest to `to`.      *)
C8_TransferMovesTaxAndNet ==
    [][(ret'.op = "transfer" /\ ret'.res = "Ok") =>
          LET amount == ret'.amount
              debited == [kas_balances EXCEPT ![ret'.from] = @ - amount]
              taxed == [debited EXCEPT ![treasury_wallet] = @ + TaxOf(amount)]
          IN  kas_balances' = [taxed EXCEPT ![ret'.to] = @ + (amount - TaxOf(amount))]]_vars

(* C9 as stated: ZeroAmount when amount = 0, ExceedsMaximum when amount is *)
(* above the cap, Paused when paused; a failing transfer changes nothing.  *)
C9_Original ==
    [][ret'.op = "transfer" =>
          /\ ret'.amount = 0 => ret'.res = "ZeroAmount"
          /\ ret'.amount > MAX_TRANSFER_AMOUNT => ret'.res = "ExceedsMaximum"
          /\ kas_paused => ret'.res = "Paused"
          /\ ret'.res \in {"ZeroAmount", "ExceedsMaximum", "Paused"} => UNCHANGED kas_vars]_vars

(* C9 as amended: Paused whenever paused; when not paused, ZeroAmount for  *)
(* amount = 0 and ExceedsMaximum for an amount above the cap; a failing    *)
(* transfer changes nothing.                                               *)
C9_ErrorsByPrecedence ==
    [][ret'.op = "transfer" =>
          /\ kas_paused => ret'.res = "Paused"
          /\ (~kas_paused /\ ret'.amount = 0) => ret'.res = "ZeroAmount"
          /\ (~kas_paused /\ ret'.amount > MAX_TRANSFER_AMOUNT) => ret'.res = "ExceedsMaximum"
          /\ ret'.res \in {"ZeroAmount", "ExceedsMaximum", "Paused"} => UNCHANGED kas_vars]_vars

C9_Witness ==
    /\ ret.op = "transfer"
    /\ ret.res = "Paused"
    /\ ret.amount = 0
    /\ kas_paused

(* C10: a transfer of more than the source holds fails and leaves all      *)
(* balances as they were.                                                  *)
C10_InsufficientBalanceFails ==
    [][(ret'.op = "transfer" /\ kas_balances[ret'.from] < ret'.amount) =>
          /\ ret'.res # "Ok"
          /\ kas_balances' = kas_balances]_vars

(* C11: right after instantiate the five allocations (liquidity, staking   *)
(* reserve, development, marketing, team) are credited, liquidity to the   *)
(* treasury and the team's as its vesting grant, and what is credited adds *)
(* up to the total supply.                                                 *)
C11_AllocationsCredited ==
    ret.op = "init" =>
        /\ cos_balances["treasury"] = LIQUIDITY_ALLOCATION
        /\ cos_vesting.total_amount = TEAM_ALLOCATION
        /\ SumOver(cos_balances, CosAccounts) + cos_vesting.total_amount = INITIAL_SUPPLY

(* What the team grant of 100,000,000 over 63,072,000 s has vested at the  *)
(* instants of VestingTimes, by hand.                                      *)
TeamVestedAt(now) ==
    CASE now = 31536000 -> 50000000
      [] now = 31536001 -> 50000001
      [] now = 47304000 -> 75000000
      [] now = 63071999 -> 99999998
      [] now >= 63072000 -> 100000000
      [] OTHER -> 0

(* C12: for the team grant, claimable is 0 before start_time + cliff, is   *)
(* floor(total_amount * min(now - start_time, duration) / duration) minus  *)
(* claimed_amount from the cliff on (50,000,000 at the cliff with nothing  *)
(* claimed), and is total_amount - claimed_amount from start_time +        *)
(* duration on.                                                            *)
C12_TeamClaimable ==
    /\ cos_time < cos_vesting.start_time + TEAM_CLIFF_PERIOD =>
          claimable(cos_vesting, cos_time) = 0
    /\ cos_time >= cos_vesting.start_time + TEAM_CLIFF_PERIOD =>
          claimable(cos_vesting, cos_time) = TeamVestedAt(cos_time) - cos_vesting.claimed_amount
    /\ cos_time >= cos_vesting.start_time + TEAM_VESTING_DURATION =>
          claimable(cos_vesting, cos_time) = TEAM_ALLOCATION - cos_vesting.claimed_amount

C12_Witness ==
    /\ cos_time = cos_vesting.start_time + TEAM_CLIFF_PERIOD
    /\ cos_vesting.claimed_amount = 0
    /\ claimable(cos_vesting, cos_time) = 50000000

(* C13: claimed_amount never decreases and never exceeds total_amount, and *)
(* the beneficiary has been credited exactly claimed_amount by the claims. *)
C13_ClaimedMonotoneAndBounded ==
    /\ [](/\ cos_vesting.claimed_amount <= cos_vesting.total_amount
          /\ cos_balances[cos_vesting.beneficiary] = cos_vesting.claimed_amount)
    /\ [][cos_vesting'.claimed_amount >= cos_vesting.claimed_amount]_vars

C13_Witness ==
    /\ cos_vesting.claimed_amount = cos_vesting.total_amount
    /\ ret.op = "claim_vested_tokens"
    /\ ret.res = "NoRewards"
    /\ ret.category = "team"

(* C14: what is staked is mirrored in the balances: a successful stake of  *)
(* amount A takes A from the staker's free balance into stake custody.     *)
C14_StakeMovesTokens ==
    [][(ret'.op = "stake" /\ ret'.res = "Ok") =>
          cos_balances'[ret'.sender] = cos_balances[ret'.sender] - ret'.amount]_vars

(* C15: a stake below the minimum fails with BelowMinimum, a stake above   *)
(* the staker's free balance fails with InsufficientBalance; neither       *)
(* creates or changes a stake record nor moves tokens.                     *)
C15_StakeRefused ==
    [][ret'.op = "stake" =>
          /\ ret'.amount < STAKE_MINIMUM =>
                (ret'.res = "BelowMinimum" /\ UNCHANGED <<cos_stake, cos_balances>>)
          /\ (ret'.amount >= STAKE_MINIMUM /\ cos_balances[ret'.sender] < ret'.amount) =>
                (ret'.res = "InsufficientBalance" /\ UNCHANGED <<cos_stake, cos_balances>>)]_vars

(* C20: a stake on an existing record adds the amount and keeps start_time *)
(* and last_claim_time; a stake without a record creates one with both     *)
(* times at now.                                                           *)
C20_StakeTopsUp ==
    [][(ret'.op = "stake" /\ ret'.res = "Ok") =>
          LET s == ret'.sender IN
          IF s \in DOMAIN cos_stake
          THEN cos_stake'[s] = [cos_stake[s] EXCEPT !.amount = @ + ret'.amount]
          ELSE cos_stake'[s] = [amount |-> ret'.amount, start_time |-> cos_time,
                                last_claim_time |-> cos_time]]_vars

(* C16: a successful claim_rewards pays r with                             *)
(* r = floor(amount * 10 * elapsed / (1000 * 86400)), elapsed being        *)
(* now - last_claim_time, written without the division as                  *)
(* r * 8640000 <= amount * elapsed < (r + 1) * 8640000; 1000 units over    *)
(* 86400 seconds pay exactly 10; with elapsed 0 the rewards are 0 and      *)
(* nothing is paid.                                                        *)
C16_RewardsFormula ==
    [][(ret'.op = "claim_rewards" /\ ret'.staker \in DOMAIN kas_stake) =>
          LET s == ret'.staker
              amount == kas_stake[s].amount
              elapsed == kas_time - kas_stake[s].last_claim_time
              paid == kas_balances'[s] - kas_balances[s]
          IN  /\ ret'.res = "Ok" =>
                    /\ paid = ret'.rewards.val
                    /\ paid * 8640000 <= amount * elapsed
                    /\ amount * elapsed < (paid + 1) * 8640000
              /\ (ret'.res = "Ok" /\ amount = 1000 /\ elapsed = 86400) => paid = 10
              /\ elapsed = 0 => (ret'.res = "NoRewards" /\ IsZero(ret'.rewards) /\ paid = 0)]_vars

(* 1000 units staked for one day have just been paid 10.                   *)
C16_Witness ==
    /\ ret.op = "claim_rewards" /\ ret.res = "Ok" /\ ret.rewards = U64(10)
    /\ kas_stake[ret.staker].amount = 1000
    /\ kas_stake[ret.staker].last_claim_time = kas_stake[ret.staker].start_time + 86400
    /\ kas_balances[treasury_wallet] = KasFunds[treasury_wallet] - 10

(* C17: claim_rewards credits r to the staker out of the rewards reserve;  *)
(* when the reserve holds less than r it fails and changes neither         *)
(* last_claim_time nor any balance; the rewards paid never exceed what the *)
(* reserve held.                                                           *)
C17_ClaimFromReserveOrNothing ==
    [][(ret'.op = "claim_rewards" /\ ret'.staker \in DOMAIN kas_stake) =>
          LET s == ret'.staker
              r == ret'.rewards.val
          IN  /\ ret'.res = "Ok" =>
                    /\ kas_balances'[s] = kas_balances[s] + r
                    /\ kas_balances'[treasury_wallet] = kas_balances[treasury_wallet] - r
              /\ (r > 0 /\ kas_balances[treasury_wallet] < r) =>
                    /\ ret'.res # "Ok"
                    /\ kas_stake'[s].last_claim_time = kas_stake[s].last_claim_time
                    /\ kas_balances' = kas_balances
              /\ kas_balances'[treasury_wallet] >= 0]_vars

(* C18: unstake with zero accrued rewards succeeds and returns the staked  *)
(* amount to the staker.                                                   *)
C18_UnstakeWithoutRewards ==
    [][(/\ ret'.op = "unstake"
        /\ ret'.staker \in DOMAIN kas_stake
        /\ IsZero(rewards(kas_stake[ret'.staker].amount,
                          U64(kas_time - kas_stake[ret'.staker].last_claim_time)))
        /\ kas_balances[stake_address] >= kas_stake[ret'.staker].amount) =>
          /\ ret'.res = "Ok"
          /\ kas_balances'[ret'.staker] =
                 kas_balances[ret'.staker] + kas_stake[ret'.staker].amount]_vars

(* C19: a successful unstake moves record.amount from stake custody to the *)
(* staker and leaves the staker without a stake record.                    *)
C19_UnstakeDeletesRecord ==
    [][(ret'.op = "unstake" /\ ret'.res = "Ok") =>
          LET s == ret'.staker IN
          /\ kas_balances'[s] = kas_balances[s] + kas_stake[s].amount
          /\ kas_balances'[stake_address] = kas_balances[stake_address] - kas_stake[s].amount
          /\ s \notin DOMAIN kas_stake']_vars

(* C23: for every amount a transfer accepts, the tax withheld, amount less *)
(* the net amount delivered, is floor(amount * 2 / 100): it lies between 0 *)
(* and amount, leaves a net amount of at least 1, and is 0 exactly when    *)
(* amount < 50, so that 1 to 49 units arrive in full.                      *)
C23_TaxBounds ==
    [][(ret'.op = "transfer" /\ ret'.res = "Ok" /\ ret'.from # ret'.to) =>
          LET amount == ret'.amount
              net == kas_balances'[ret'.to] - kas_balances[ret'.to]
              tax == amount - net
          IN  /\ 1 <= amount /\ amount <= MAX_TRANSFER_AMOUNT
              /\ 0 <= tax /\ tax <= amount
              /\ net >= 1
              /\ 100 * tax <= TRANSFER_TAX_RATE * amount
              /\ TRANSFER_TAX_RATE * amount < 100 * (tax + 1)
              /\ tax = 0 <=> amount < 50]_vars

(* 49 units have just been delivered in full, after 1 unit was.            *)
C23_Witness ==
    /\ ret.op = "transfer" /\ ret.res = "Ok" /\ ret.amount = 49
    /\ ret.from = "alice" /\ ret.to = "bob"
    /\ kas_balances["bob"] = KasFunds["bob"] + 1 + 49

(* C21: whatever the clock reads from one call to the next, every stake    *)
(* record has last_claim_time >= start_time, the last_claim_time of a      *)
(* record never decreases (a stake writes a new record), a successful      *)
(* claim_rewards sets last_claim_time to now, and a claim_rewards at       *)
(* now = last_claim_time fails with NoRewards and pays nothing.            *)
C21_LastClaimTimeMonotone ==
    [][/\ \A s \in DOMAIN kas_stake' :
              kas_stake'[s].last_claim_time >= kas_stake'[s].start_time
       /\ ret'.op # "stake" =>
              \A s \in DOMAIN kas_stake \cap DOMAIN kas_stake' :
                  kas_stake'[s].last_claim_time >= kas_stake[s].last_claim_time
       /\ (ret'.op = "claim_rewards" /\ ret'.res = "Ok") =>
              kas_stake'[ret'.staker].last_claim_time = kas_time
       /\ (/\ ret'.op = "claim_rewards"
           /\ ret'.staker \in DOMAIN kas_stake
           /\ kas_stake[ret'.staker].last_claim_time = kas_time) =>
              (ret'.res = "NoRewards" /\ kas_balances' = kas_balances)]_vars

(* C22: in every claim_rewards on a stake record, now - last_claim_time    *)
(* does not go below 0, no operation leaves the u64 range, and the rewards *)
(* computed are those of the whole 16-byte product                         *)
(* amount * rate * elapsed divided by 1000 * 86400.                        *)
C22_RewardsDoNotWrap ==
    [][(ret'.op = "claim_rewards" /\ ret'.staker \in DOMAIN kas_stake) =>
          LET stake_info == kas_stake[ret'.staker]
              rated == wrapping_mul(U64(stake_info.amount), U64(REWARD_RATE))
              elapsed == U64(kas_time - stake_info.last_claim_time)
          IN  /\ ret'.res # "Panic"
              /\ kas_time >= stake_info.last_claim_time
              /\ ~mul_overflows(U64(stake_info.amount), U64(REWARD_RATE))
              /\ DivBytes(full_mul(rated, elapsed), 1000 * 86400, 0)
                     = Bytes(ret'.rewards) \o ToBytes(0, 8)]_vars

====
